---- MODULE Spec2Model ----
(***************************************************************************)
(* A model of gojson.go: the GoJson node (prev / prevKey / prevIndex /     *)
(* data), the container accessors over Go maps and slices, the parent      *)
(* write-back of Append / Insert, the deep copy of Clone / ShortNiceJson   *)
(* and the integer coercion ToInt.                                         *)
(*                                                                         *)
(* Go maps are references: a map value is an id into the heap `maps`.      *)
(* Go slices are headers (array, len, cap) over a backing array: a slice   *)
(* value carries its own len and cap and an id into the heap `arrs`, so    *)
(* two headers can share one array and disagree on its length.             *)
(* The dynamic type of an interface{} value is the field typ:              *)
(*   "nil", "num", "str", "map" (map[string]interface{}), "Dict",          *)
(*   "slice" ([]interface{}), "List", "node" (a pointer to a GoJson).     *)
(***************************************************************************)
EXTENDS Integers, Sequences, FiniteSets, TLC

VARIABLES nodes, maps, arrs, fault, last, muts, extra, tiTyp, tiVal, tiRes

vars == <<nodes, maps, arrs, fault, last, muts, extra, tiTyp, tiVal, tiRes>>

heapVars == <<nodes, maps, arrs, fault, last, muts, extra>>
tiVars == <<tiTyp, tiVal, tiRes>>

---------------------------------------------------------------------------
(* Bounds of the exploration *)

MaxNodes == 2       \* GoJson handles alive at once (the root and the navigated ones)
MaxMuts == 1        \* mutating calls (Set, Append, Insert, Remove) per run
MaxDepth == 5       \* nesting depth to which a value is walked
MaxSlack == 1       \* spare capacity the decoder may leave behind a decoded array
WordBits == 6       \* width, in bits, standing for the 64 bits of int / int64 / uint / uint64

(* Program constant: the cut length of handlerString *)
CutLen == 120

KeySet == {"a", "b"}
IdxSet == {0, 2}
NavIdx == {-1} \cup IdxSet

---------------------------------------------------------------------------
(* Values *)

V(t, r, l, c, n, s) == [typ |-> t, ref |-> r, len |-> l, cap |-> c, num |-> n, str |-> s]

Nil == V("nil", 0, 0, 0, 0, "")
NumV(n) == V("num", 0, 0, 0, n, "")
StrV(s) == V("str", 0, 0, 0, 0, s)
MapV(t, r) == V(t, r, 0, 0, 0, "")
SliceV(t, r, l, c) == V(t, r, l, c, 0, "")
NodeV(h) == V("node", h, 0, 0, 0, "")

(* the text of n copies of the character c *)
RECURSIVE Chars(_, _)
Chars(c, n) == IF n = 0 THEN "" ELSE Chars(c, n - 1) \o c

LongStr == Chars("x", CutLen + 1)
EdgeStr == Chars("x", CutLen)
DigitStr == "7"
Marker == Chars(".", 6)

EmptyMap == [dom |-> {}, val |-> [k \in KeySet |-> Nil]]

GoJson(p, pk, pi, d) == [prev |-> p, prevKey |-> pk, prevIndex |-> pi, data |-> d]

(* GoJson.Value *)
Value(N, h) == N[h].data

(* the prelude of the accessors that unwraps a node argument to its Value *)
Unwrap(N, data) == IF data.typ = "node" THEN Value(N, data.ref) ELSE data

---------------------------------------------------------------------------
(* Container accessors *)

(* getMap without its Dict case *)
getMap_mapOnly(key, mapBody, M) ==
    IF mapBody.typ = "map"
    THEN [val |-> IF key \in M[mapBody.ref].dom THEN M[mapBody.ref].val[key] ELSE Nil,
          ok |-> TRUE]
    ELSE [val |-> Nil, ok |-> FALSE]

getMap(key, mapBody, M) ==
    IF mapBody.typ \in {"map", "Dict"}
    THEN [val |-> IF key \in M[mapBody.ref].dom THEN M[mapBody.ref].val[key] ELSE Nil,
          ok |-> TRUE]
    ELSE [val |-> Nil, ok |-> FALSE]

(* setMap storing its argument as given, a node staying a node *)
setMap_keepNode(key, mapBody, data, M, N) ==
    IF mapBody.typ \in {"map", "Dict"}
    THEN [maps |-> [M EXCEPT ![mapBody.ref] =
                       [dom |-> @.dom \cup {key}, val |-> [@.val EXCEPT ![key] = data]]],
          ok |-> TRUE]
    ELSE [maps |-> M, ok |-> FALSE]

setMap(key, mapBody, data, M, N) ==
    LET val == Unwrap(N, data)
    IN IF mapBody.typ \in {"map", "Dict"}
       THEN [maps |-> [M EXCEPT ![mapBody.ref] =
                          [dom |-> @.dom \cup {key}, val |-> [@.val EXCEPT ![key] = val]]],
             ok |-> TRUE]
       ELSE [maps |-> M, ok |-> FALSE]

(* v[key]: an index outside 0..len-1 is a run-time panic *)
getSlice(key, sliceBody, A) ==
    IF sliceBody.typ \in {"slice", "List"}
    THEN IF key >= 0 /\ key < sliceBody.len
         THEN [val |-> A[sliceBody.ref][key + 1], ok |-> TRUE, panic |-> FALSE]
         ELSE [val |-> Nil, ok |-> FALSE, panic |-> TRUE]
    ELSE [val |-> Nil, ok |-> FALSE, panic |-> FALSE]

(* growth of the backing array by the Go runtime, for capacities below 256 *)
GrowCap(oldcap, needed) == IF needed > 2 * oldcap THEN needed ELSE 2 * oldcap

(* the built-in append(hdr, vals...): in place when the capacity allows,   *)
(* else a fresh array holding a copy of the first len elements             *)
goAppend(hdr, vals, A) ==
    LET newLen == hdr.len + Len(vals)
    IN IF newLen <= hdr.cap
       THEN [hdr |-> [hdr EXCEPT !.len = newLen],
             arrs |-> IF Len(vals) = 0 THEN A
                      ELSE [A EXCEPT ![hdr.ref] =
                              [i \in 1..Len(@) |->
                                 IF i > hdr.len /\ i <= newLen THEN vals[i - hdr.len] ELSE @[i]]]]
       ELSE LET newCap == GrowCap(hdr.cap, newLen)
                fresh == [i \in 1..newCap |->
                            IF i <= hdr.len THEN A[hdr.ref][i]
                            ELSE IF i <= newLen THEN vals[i - hdr.len] ELSE Nil]
            IN [hdr |-> [hdr EXCEPT !.ref = Len(A) + 1, !.len = newLen, !.cap = newCap],
                arrs |-> Append(A, fresh)]

appendSlice(sliceBody, data, A, N) ==
    LET val == Unwrap(N, data)
    IN IF sliceBody.typ \in {"slice", "List"}
       THEN LET r == goAppend(sliceBody, <<val>>, A)
            IN [val |-> r.hdr, arrs |-> r.arrs, ok |-> TRUE]
       ELSE [val |-> Nil, arrs |-> A, ok |-> FALSE]

(* v[index] = val: an index outside 0..len-1 is a run-time panic *)
setSlice(index, sliceBody, data, A, N) ==
    LET val == Unwrap(N, data)
    IN IF sliceBody.typ \in {"slice", "List"}
       THEN IF index >= 0 /\ index < sliceBody.len
            THEN [arrs |-> [A EXCEPT ![sliceBody.ref][index + 1] = val], ok |-> TRUE, panic |-> FALSE]
            ELSE [arrs |-> A, ok |-> FALSE, panic |-> TRUE]
       ELSE [arrs |-> A, ok |-> FALSE, panic |-> FALSE]

(* rear := append([]interface{}{}, v[index:]...); v = append(v[0:index], val); *)
(* return append(v, rear...).  v[index:] panics unless 0 <= index <= len.       *)
insertSlice(index, sliceBody, data, A, N) ==
    LET val == Unwrap(N, data)
    IN IF sliceBody.typ \in {"slice", "List"}
       THEN IF index < 0 \/ index > sliceBody.len
            THEN [val |-> Nil, arrs |-> A, ok |-> FALSE, panic |-> TRUE]
            ELSE LET rear == [i \in 1..(sliceBody.len - index) |-> A[sliceBody.ref][index + i]]
                     s1 == goAppend([sliceBody EXCEPT !.len = index], <<val>>, A)
                     s2 == goAppend(s1.hdr, rear, s1.arrs)
                 IN [val |-> s2.hdr, arrs |-> s2.arrs, ok |-> TRUE, panic |-> FALSE]
       ELSE [val |-> Nil, arrs |-> A, ok |-> FALSE, panic |-> FALSE]

---------------------------------------------------------------------------
(* Shape predicates and readers *)

IsNil(d) == d.typ = "nil"
IsSlice(d) == d.typ \in {"List", "slice"}
IsMap(d) == d.typ \in {"Dict", "map"}
GoJson_Len(d) == IF d.typ \in {"slice", "List"} THEN d.len ELSE 0

(* the elements a slice header sees *)
Elems(d, A) == [i \in 1..d.len |-> A[d.ref][i]]

Leaf(k, n, s) == [kind |-> k, num |-> n, str |-> s, elems |-> <<>>, members |-> {}]

(* what the encoder walks when a value is serialized: objects by key,     *)
(* arrays by position, scalars by value                                    *)
RECURSIVE Tree(_, _, _, _)
Tree(v, M, A, d) ==
    IF d = 0 THEN Leaf("deep", 0, "")
    ELSE IF v.typ \in {"map", "Dict"}
    THEN [kind |-> "object", num |-> 0, str |-> "", elems |-> <<>>,
          members |-> {<<k, Tree(M[v.ref].val[k], M, A, d - 1)>> : k \in M[v.ref].dom}]
    ELSE IF v.typ \in {"slice", "List"}
    THEN [kind |-> "array", num |-> 0, str |-> "",
          elems |-> [i \in 1..v.len |-> Tree(A[v.ref][i], M, A, d - 1)],
          members |-> {}]
    ELSE IF v.typ = "node" THEN Leaf("node", v.ref, "")
    ELSE Leaf(v.typ, v.num, v.str)

(* the maps and arrays a value reaches *)
RECURSIVE Reach(_, _, _, _)
Reach(v, M, A, d) ==
    IF d = 0 THEN {}
    ELSE IF v.typ \in {"map", "Dict"}
    THEN {<<"map", v.ref>>} \cup UNION {Reach(M[v.ref].val[k], M, A, d - 1) : k \in M[v.ref].dom}
    ELSE IF v.typ \in {"slice", "List"}
    THEN (IF v.cap > 0 THEN {<<"arr", v.ref>>} ELSE {})
         \cup UNION {Reach(A[v.ref][i], M, A, d - 1) : i \in 1..v.len}
    ELSE {}

---------------------------------------------------------------------------
(* Decoding of JSON text, for the texts of this model: an integer literal, *)
(* the literal null, anything else is malformed                            *)

Digits == {"0", "1", "2", "3", "4", "5", "6", "7", "8", "9"}
DigitVal(c) == CHOOSE n \in 0..9 : <<"0", "1", "2", "3", "4", "5", "6", "7", "8", "9">>[n + 1] = c
CharAt(s, i) == SubSeq(s, i, i)

RECURSIVE NumberOf(_)
NumberOf(s) == IF Len(s) = 0 THEN 0
               ELSE 10 * NumberOf(SubSeq(s, 1, Len(s) - 1)) + DigitVal(CharAt(s, Len(s)))

decodeJson(s) ==
    IF s = "null" THEN [val |-> Nil, err |-> FALSE]
    ELSE IF Len(s) > 0 /\ (\A i \in 1..Len(s) : CharAt(s, i) \in Digits) /\ (Len(s) = 1 \/ CharAt(s, 1) # "0")
    THEN [val |-> NumV(NumberOf(s)), err |-> FALSE]
    ELSE [val |-> Nil, err |-> TRUE]

(* a decode failure is swallowed: the node is the empty GoJson *)
NewJsonFromString(s) ==
    LET r == decodeJson(s) IN IF r.err THEN Nil ELSE r.val

NewJsonFromData(d) == d

(* the data of the node NewJson builds (its prev is nil) *)
NewJson(data) ==
    IF data.typ = "str" THEN NewJsonFromString(data.str) ELSE NewJsonFromData(data)

---------------------------------------------------------------------------
(* Deep copy: handlerVal / handlerMap / handlerSlice / handlerString.      *)
(* Each returns the copy and the heaps after its allocations; running out  *)
(* of depth is the unbounded recursion of a cyclic value.                  *)

handlerString(js, cutLongStr) ==
    IF cutLongStr /\ Len(js) > CutLen THEN SubSeq(js, 1, CutLen) \o Marker ELSE js

SetToSeq(S) ==
    LET RECURSIVE Go(_)
        Go(T) == IF T = {} THEN <<>>
                 ELSE LET x == CHOOSE y \in T : TRUE IN <<x>> \o Go(T \ {x})
    IN Go(S)

RECURSIVE handlerVal(_, _, _, _, _), handlerMapFill(_, _, _, _, _, _, _), handlerSliceFill(_, _, _, _, _, _, _)

(* ret := NewDict(); for key, val := range v { ret[key] = handlerVal(val) } *)
handlerMap(js, cutLongStr, M, A, d) ==
    LET ret == MapV("Dict", Len(M) + 1)
        keys == IF js.typ \in {"Dict", "map"} THEN SetToSeq(M[js.ref].dom) ELSE <<>>
        r == handlerMapFill(keys, js, ret, cutLongStr, Append(M, EmptyMap), A, d)
    IN [val |-> ret, maps |-> r.maps, arrs |-> r.arrs, overflow |-> r.overflow]

handlerMapFill(keys, js, ret, cutLongStr, M, A, d) ==
    IF Len(keys) = 0 THEN [maps |-> M, arrs |-> A, overflow |-> FALSE]
    ELSE LET key == Head(keys)
             c == handlerVal(M[js.ref].val[key], cutLongStr, M, A, d - 1)
         IN IF c.overflow THEN [maps |-> M, arrs |-> A, overflow |-> TRUE]
            ELSE handlerMapFill(Tail(keys), js, ret, cutLongStr,
                                [c.maps EXCEPT ![ret.ref] =
                                    [dom |-> @.dom \cup {key}, val |-> [@.val EXCEPT ![key] = c.val]]],
                                c.arrs, d)

(* ret := NewList(); for _, val := range v { ret = append(ret, handlerVal(val)) } *)
handlerSlice(js, cutLongStr, M, A, d) ==
    LET ret == SliceV("List", 0, 0, 0)
        n == IF js.typ \in {"List", "slice"} THEN js.len ELSE 0
    IN handlerSliceFill(1, n, js, ret, cutLongStr, M, [arrs |-> A, d |-> d])

handlerSliceFill(i, n, js, ret, cutLongStr, M, Ad) ==
    IF i > n THEN [val |-> ret, maps |-> M, arrs |-> Ad.arrs, overflow |-> FALSE]
    ELSE LET c == handlerVal(Ad.arrs[js.ref][i], cutLongStr, M, Ad.arrs, Ad.d - 1)
         IN IF c.overflow THEN [val |-> ret, maps |-> M, arrs |-> Ad.arrs, overflow |-> TRUE]
            ELSE LET g == goAppend(ret, <<c.val>>, c.arrs)
                 IN handlerSliceFill(i + 1, n, js, g.hdr, cutLongStr, c.maps,
                                     [arrs |-> g.arrs, d |-> Ad.d])

handlerVal(val, cutLongStr, M, A, d) ==
    IF d = 0 THEN [val |-> Nil, maps |-> M, arrs |-> A, overflow |-> TRUE]
    ELSE IF val.typ \in {"Dict", "map"} THEN handlerMap(val, cutLongStr, M, A, d)
    ELSE IF val.typ \in {"List", "slice"} THEN handlerSlice(val, cutLongStr, M, A, d)
    ELSE IF val.typ = "str"
    THEN [val |-> StrV(handlerString(val.str, cutLongStr)), maps |-> M, arrs |-> A, overflow |-> FALSE]
    ELSE [val |-> val, maps |-> M, arrs |-> A, overflow |-> FALSE]

(* the body shared by Clone (cutLongStr false) and ShortNiceJson (true):   *)
(* the data of the node returned                                            *)
copyNode(data, cutLongStr, M, A) ==
    IF IsSlice(data)
    THEN LET r == handlerSlice(data, cutLongStr, M, A, MaxDepth)
         IN [val |-> NewJson(r.val), maps |-> r.maps, arrs |-> r.arrs, overflow |-> r.overflow]
    ELSE IF IsMap(data)
    THEN LET r == handlerMap(data, cutLongStr, M, A, MaxDepth)
         IN [val |-> NewJson(r.val), maps |-> r.maps, arrs |-> r.arrs, overflow |-> r.overflow]
    ELSE [val |-> NewJson(data), maps |-> M, arrs |-> A, overflow |-> FALSE]

---------------------------------------------------------------------------
(* The methods of GoJson, as functions of the node table N and the heaps   *)

StrKey(s) == [isStr |-> TRUE, s |-> s, i |-> 0]
IntKey(i) == [isStr |-> FALSE, s |-> "", i |-> i]

Get(h, key, N, M) ==
    LET r == getMap(key, Value(N, h), M)
    IN IF ~r.ok THEN GoJson(h, key, 0, Nil) ELSE GoJson(h, key, 0, r.val)

Index(h, key, N, A) ==
    LET r == getSlice(key, Value(N, h), A)
    IN [panic |-> r.panic,
        node |-> IF ~r.ok THEN GoJson(h, "", key, Nil) ELSE GoJson(h, "", key, r.val)]

Set(h, key, val, N, M, A) ==
    IF key.isStr
    THEN [maps |-> setMap(key.s, Value(N, h), val, M, N).maps, arrs |-> A, panic |-> FALSE]
    ELSE LET r == setSlice(key.i, Value(N, h), val, A, N)
         IN [maps |-> M, arrs |-> r.arrs, panic |-> r.panic]

maintainParent(child, N, M, A) ==
    IF N[child].prev = 0 THEN [maps |-> M, arrs |-> A, panic |-> FALSE]
    ELSE LET p == N[child].prev
         IN IF Value(N, p).typ = "map"
            THEN Set(p, StrKey(N[child].prevKey), NodeV(child), N, M, A)
            ELSE IF Value(N, p).typ = "slice"
            THEN Set(p, IntKey(N[child].prevIndex), NodeV(child), N, M, A)
            ELSE [maps |-> M, arrs |-> A, panic |-> FALSE]

GoJson_Append(h, val, N, M, A) ==
    LET v == Unwrap(N, val)
        r == appendSlice(Value(N, h), v, A, N)
    IN IF ~r.ok THEN [nodes |-> N, maps |-> M, arrs |-> A, ok |-> FALSE, panic |-> FALSE]
       ELSE LET N1 == [N EXCEPT ![h].data = r.val]
                mp == maintainParent(h, N1, M, r.arrs)
            IN [nodes |-> N1, maps |-> mp.maps, arrs |-> mp.arrs, ok |-> TRUE, panic |-> mp.panic]

Insert(h, index, val, N, M, A) ==
    LET r == insertSlice(index, Value(N, h), val, A, N)
    IN IF r.panic THEN [nodes |-> N, maps |-> M, arrs |-> A, ok |-> FALSE, panic |-> TRUE]
       ELSE IF ~r.ok THEN [nodes |-> N, maps |-> M, arrs |-> A, ok |-> FALSE, panic |-> FALSE]
       ELSE LET N1 == [N EXCEPT ![h].data = r.val]
                mp == maintainParent(h, N1, M, r.arrs)
            IN [nodes |-> N1, maps |-> mp.maps, arrs |-> mp.arrs, ok |-> TRUE, panic |-> mp.panic]

(* a string key deletes from a mapping; an integer key does nothing *)
Remove(h, key, N, M) ==
    IF key.isStr /\ IsMap(Value(N, h))
    THEN [M EXCEPT ![Value(N, h).ref] =
            [dom |-> @.dom \ {key.s}, val |-> [@.val EXCEPT ![key.s] = Nil]]]
    ELSE M

(* the type assertion j.data.(map[string]interface{}) fails on every other type *)
Keys(d, M) ==
    IF d.typ = "nil" THEN [keys |-> {}, panic |-> FALSE]
    ELSE IF d.typ = "map" THEN [keys |-> M[d.ref].dom, panic |-> FALSE]
    ELSE [keys |-> {}, panic |-> TRUE]

Clone(h, N, M, A) == copyNode(Value(N, h), FALSE, M, A)

ShortNiceJson(h, N, M, A) == copyNode(Value(N, h), TRUE, M, A)

---------------------------------------------------------------------------
(* ToInt on the integer types.  int, int64, uint and uint64 are WordBits   *)
(* wide; the narrower types keep their order below it.                     *)

Pow2(n) == LET RECURSIVE P(_)
               P(k) == IF k = 0 THEN 1 ELSE 2 * P(k - 1)
           IN P(n)

SignedTypes == {"int", "int8", "int16", "int32", "int64"}
UnsignedTypes == {"uint", "uint8", "uint16", "uint32", "uint64"}
IntTypes == SignedTypes \cup UnsignedTypes

Bits(t) == IF t \in {"int8", "uint8"} THEN WordBits - 3
           ELSE IF t \in {"int16", "uint16"} THEN WordBits - 2
           ELSE IF t \in {"int32", "uint32"} THEN WordBits - 1
           ELSE WordBits

RangeOf(t) == IF t \in SignedTypes THEN (0 - Pow2(Bits(t) - 1))..(Pow2(Bits(t) - 1) - 1)
              ELSE 0..(Pow2(Bits(t)) - 1)

MaxInt64 == Pow2(WordBits - 1) - 1

(* the conversion int(v): the low WordBits bits of v read as a signed integer *)
ToIntWord(v) == LET m == v % Pow2(WordBits)
                IN IF m >= Pow2(WordBits - 1) THEN m - Pow2(WordBits) ELSE m

ToInt(t, v) ==
    IF t = "uint64"
    THEN IF v > MaxInt64 THEN [val |-> 0, err |-> TRUE]
         ELSE [val |-> ToIntWord(v), err |-> FALSE]
    ELSE IF t \in IntTypes THEN [val |-> ToIntWord(v), err |-> FALSE]
    ELSE [val |-> 0, err |-> TRUE]

(* the integer cases of ToFloat64 go through ToInt; int32 is not among them *)
ToFloat64(t, v) ==
    IF t \in (IntTypes \ {"int32"})
    THEN ToInt(t, v)
    ELSE [val |-> 0, err |-> TRUE]

---------------------------------------------------------------------------
(* The documents a run starts from                                         *)

Pad(s, slack) == s \o [i \in 1..slack |-> Nil]

NoLast ==
    [op |-> "none", recv |-> 0, res |-> 0, skey |-> "", ikey |-> 0, arg |-> Nil,
     ok |-> FALSE, keys |-> {}]

(* NewJson(`{"a":[1,"x...x"],"b":null}`): a decoded object *)
DocMap(slack) ==
    [nodes |-> <<GoJson(0, "", 0, MapV("map", 1))>>,
     maps |-> <<[dom |-> {"a", "b"},
                 val |-> [k \in KeySet |-> IF k = "a" THEN SliceV("slice", 1, 2, 2 + slack) ELSE Nil]]>>,
     arrs |-> <<Pad(<<NumV(1), StrV(LongStr)>>, slack)>>]

(* NewJson(`[[1],2]`): a decoded array holding an array *)
DocSlice(slack) ==
    [nodes |-> <<GoJson(0, "", 0, SliceV("slice", 1, 2, 2 + slack))>>,
     maps |-> <<>>,
     arrs |-> <<Pad(<<SliceV("slice", 2, 1, 1 + slack), NumV(2)>>, slack),
                Pad(<<NumV(1)>>, slack)>>]

(* NewJsonFromData(Dict{"a": NewList().Add(1).Add("x...x")}): the named container types *)
DocDict ==
    [nodes |-> <<GoJson(0, "", 0, MapV("Dict", 1))>>,
     maps |-> <<[dom |-> {"a"},
                 val |-> [k \in KeySet |-> IF k = "a" THEN SliceV("List", 1, 2, 2) ELSE Nil]]>>,
     arrs |-> <<<<NumV(1), StrV(EdgeStr)>>>>]

(* NewJsonFromData(s) for a string s: a string scalar *)
DocStr(s) ==
    [nodes |-> <<GoJson(0, "", 0, StrV(s))>>, maps |-> <<>>, arrs |-> <<>>]

Docs == {DocMap(k) : k \in 0..MaxSlack} \cup {DocSlice(k) : k \in 0..MaxSlack}
        \cup {DocDict, DocStr(LongStr), DocStr(DigitStr)}

NoToInt == [op |-> "none", val |-> 0, err |-> FALSE]

Start(x) ==
    /\ \E doc \in Docs : nodes = doc.nodes /\ maps = doc.maps /\ arrs = doc.arrs
    /\ fault = "none"
    /\ last = NoLast
    /\ muts = 0
    /\ extra = x
    /\ tiTyp = "none" /\ tiVal = 0 /\ tiRes = NoToInt

(* runs of at most MaxNodes handles and MaxMuts mutating calls *)
Init == Start(0)

(* runs one handle and one mutating call longer *)
InitDeep == Start(1)

---------------------------------------------------------------------------
(* The calls a program makes on its handles                                *)

Handles == 1..Len(nodes)

(* arguments: a scalar, or (for Append) a node *)
Scalars == {NumV(4)}
ArgVals == Scalars \cup {NodeV(h) : h \in Handles}

(* the call just made: its receiver, arguments and outcome *)
Record(op, h, res, key, arg, ok, keys) ==
    [op |-> op, recv |-> h, res |-> res, skey |-> key.s, ikey |-> key.i, arg |-> arg,
     ok |-> ok, keys |-> keys]

CallGet ==
    /\ fault = "none" /\ Len(nodes) < MaxNodes + extra
    /\ \E h \in Handles, key \in KeySet :
         /\ nodes' = Append(nodes, Get(h, key, nodes, maps))
         /\ last' = Record("Get", h, Len(nodes) + 1, StrKey(key), Nil, TRUE, {})
    /\ UNCHANGED <<maps, arrs, fault, muts, extra, tiVars>>

CallIndex ==
    /\ fault = "none" /\ Len(nodes) < MaxNodes + extra
    /\ \E h \in Handles, key \in NavIdx :
         LET r == Index(h, key, nodes, arrs)
         IN IF r.panic
            THEN /\ fault' = "index out of range"
                 /\ last' = Record("Index", h, 0, IntKey(key), Nil, FALSE, {})
                 /\ UNCHANGED nodes
            ELSE /\ nodes' = Append(nodes, r.node)
                 /\ last' = Record("Index", h, Len(nodes) + 1, IntKey(key), Nil, TRUE, {})
                 /\ UNCHANGED fault
    /\ UNCHANGED <<maps, arrs, muts, extra, tiVars>>

CallSet ==
    /\ fault = "none" /\ muts < MaxMuts + extra
    /\ \E h \in Handles, key \in {StrKey(k) : k \in KeySet} \cup {IntKey(i) : i \in IdxSet},
          val \in Scalars :
         LET r == Set(h, key, val, nodes, maps, arrs)
         IN /\ maps' = r.maps /\ arrs' = r.arrs
            /\ fault' = IF r.panic THEN "index out of range" ELSE "none"
            /\ last' = Record("Set", h, h, key, val, ~r.panic, {})
    /\ muts' = muts + 1
    /\ UNCHANGED <<nodes, extra, tiVars>>

CallAppend ==
    /\ fault = "none" /\ muts < MaxMuts + extra
    /\ \E h \in Handles, val \in ArgVals :
         LET r == GoJson_Append(h, val, nodes, maps, arrs)
         IN /\ nodes' = r.nodes /\ maps' = r.maps /\ arrs' = r.arrs
            /\ fault' = IF r.panic THEN "index out of range" ELSE "none"
            /\ last' = Record("Append", h, h, IntKey(0), val, r.ok, {})
    /\ muts' = muts + 1
    /\ UNCHANGED <<extra, tiVars>>

CallInsert ==
    /\ fault = "none" /\ muts < MaxMuts + extra
    /\ \E h \in Handles, index \in IdxSet, val \in Scalars :
         LET r == Insert(h, index, val, nodes, maps, arrs)
         IN /\ nodes' = r.nodes /\ maps' = r.maps /\ arrs' = r.arrs
            /\ fault' = IF r.panic THEN "slice bounds out of range" ELSE "none"
            /\ last' = Record("Insert", h, h, IntKey(index), val, r.ok, {})
    /\ muts' = muts + 1
    /\ UNCHANGED <<extra, tiVars>>

CallRemove ==
    /\ fault = "none" /\ muts < MaxMuts + extra
    /\ \E h \in Handles, key \in {StrKey(k) : k \in KeySet} \cup {IntKey(0)} :
         /\ maps' = Remove(h, key, nodes, maps)
         /\ last' = Record("Remove", h, h, key, Nil, TRUE, {})
    /\ muts' = muts + 1
    /\ UNCHANGED <<nodes, arrs, fault, extra, tiVars>>

CallKeys ==
    /\ fault = "none"
    /\ \E h \in Handles :
         LET r == Keys(nodes[h].data, maps)
         IN /\ fault' = IF r.panic THEN "Input invalid error" ELSE "none"
            /\ last' = Record("Keys", h, 0, IntKey(0), Nil, ~r.panic, r.keys)
    /\ UNCHANGED <<nodes, maps, arrs, muts, extra, tiVars>>

Copy(op, r, h) ==
    IF r.overflow
    THEN /\ fault' = "stack overflow"
         /\ last' = Record(op, h, 0, IntKey(0), Nil, FALSE, {})
         /\ UNCHANGED <<nodes, maps, arrs>>
    ELSE /\ nodes' = Append(nodes, GoJson(0, "", 0, r.val))
         /\ maps' = r.maps /\ arrs' = r.arrs
         /\ last' = Record(op, h, Len(nodes) + 1, IntKey(0), Nil, TRUE, {})
         /\ UNCHANGED fault

CallClone ==
    /\ fault = "none" /\ Len(nodes) < MaxNodes + extra
    /\ \E h \in Handles : Copy("Clone", Clone(h, nodes, maps, arrs), h)
    /\ UNCHANGED <<muts, extra, tiVars>>

CallShortNiceJson ==
    /\ fault = "none" /\ Len(nodes) < MaxNodes + extra
    /\ \E h \in Handles : Copy("ShortNiceJson", ShortNiceJson(h, nodes, maps, arrs), h)
    /\ UNCHANGED <<muts, extra, tiVars>>

Next ==
    \/ CallGet \/ CallIndex \/ CallSet \/ CallAppend \/ CallInsert \/ CallRemove
    \/ CallKeys \/ CallClone \/ CallShortNiceJson

Spec == Init /\ [][Next]_vars

SpecDeep == InitDeep /\ [][Next]_vars

---------------------------------------------------------------------------
(* The coercions, applied to one value of one integer type                 *)

InitToInt ==
    /\ nodes = <<>> /\ maps = <<>> /\ arrs = <<>>
    /\ fault = "none" /\ last = NoLast /\ muts = 0 /\ extra = 0
    /\ tiTyp \in IntTypes
    /\ tiVal \in RangeOf(tiTyp)
    /\ tiRes = NoToInt

CallToInt ==
    /\ tiRes.op = "none"
    /\ tiRes' = [op |-> "ToInt", val |-> ToInt(tiTyp, tiVal).val, err |-> ToInt(tiTyp, tiVal).err]
    /\ UNCHANGED <<heapVars, tiTyp, tiVal>>

CallToFloat64 ==
    /\ tiRes.op = "none"
    /\ tiRes' = [op |-> "ToFloat64", val |-> ToFloat64(tiTyp, tiVal).val, err |-> ToFloat64(tiTyp, tiVal).err]
    /\ UNCHANGED <<heapVars, tiTyp, tiVal>>

NextToInt == CallToInt \/ CallToFloat64

SpecToInt == InitToInt /\ [][NextToInt]_vars

---------------------------------------------------------------------------
(* Properties                                                              *)

(* the value the parent of node h holds where h was read from, in the     *)
(* heaps given                                                             *)
ParentSlot(h, N, M, A) ==
    LET pd == N[N[h].prev].data
    IN IF IsMap(pd) THEN getMap(N[h].prevKey, pd, M).val
       ELSE IF IsSlice(pd) /\ N[h].prevIndex >= 0 /\ N[h].prevIndex < pd.len
       THEN A[pd.ref][N[h].prevIndex + 1]
       ELSE Nil

HasContainerParent(h, N) ==
    N[h].prev # 0 /\ (IsMap(N[N[h].prev].data) \/ IsSlice(N[N[h].prev].data))

HasPlainParent(h, N) ==
    N[h].prev # 0 /\ N[N[h].prev].data.typ \in {"map", "slice"}

InElems(v, d, A) == \E i \in 1..d.len : A[d.ref][i] = v

(* C1: after Append or Insert on a child C that holds a sequence of length n, *)
(* read by Get or Index from a parent holding a mapping or a sequence (Dict   *)
(* and List included), the parent's container holds C's new sequence of       *)
(* length n+1 containing v where C was read from.                             *)
C1_ParentHoldsNewSequence ==
    [][(/\ last'.op \in {"Append", "Insert"} /\ last'.ok
        /\ HasContainerParent(last'.recv, nodes)
        /\ IsSlice(nodes[last'.recv].data))
       => LET h == last'.recv
              slot == ParentSlot(h, nodes', maps', arrs')
          IN /\ slot = nodes'[h].data
             /\ GoJson_Len(slot) = nodes[h].data.len + 1
             /\ InElems(Unwrap(nodes, last'.arg), slot, arrs')]_vars

(* C2: Get(k).IsNil() is true exactly when k is absent from the wrapped    *)
(* mapping or the wrapped Value is no mapping; a key that is present gives *)
(* IsNil false whatever it maps to.                                        *)
C2_NilIffAbsent ==
    last.op = "Get" =>
        LET d == nodes[last.recv].data
        IN IsNil(nodes[last.res].data) <=> (~IsMap(d) \/ last.skey \notin maps[d.ref].dom)

(* C2, amended: Get(k).IsNil() is true exactly when the wrapped Value is   *)
(* no mapping, or k is absent from it, or k maps to null.                  *)
C2_NilIffAbsentOrNull ==
    last.op = "Get" =>
        LET d == nodes[last.recv].data
        IN IsNil(nodes[last.res].data) <=>
              (\/ ~IsMap(d)
               \/ last.skey \notin maps[d.ref].dom
               \/ maps[d.ref].val[last.skey].typ = "nil")

C2_Witness ==
    /\ last.op = "Get"
    /\ IsMap(nodes[last.recv].data)
    /\ last.skey \in maps[nodes[last.recv].data.ref].dom
    /\ maps[nodes[last.recv].data.ref].val[last.skey].typ = "nil"
    /\ IsNil(nodes[last.res].data)

(* C3: Append(v) on a node holding a sequence of length n leaves it with a *)
(* sequence of length n+1, the first n elements as before and v (unwrapped *)
(* when a node) last; on a node holding no sequence it changes neither the *)
(* node's Value nor anything in its parent.                                *)
C3_AppendAtTail ==
    [][last'.op = "Append"
       => LET h == last'.recv
              pre == nodes[h].data
              post == nodes'[h].data
          IN IF IsSlice(pre)
             THEN /\ IsSlice(post) /\ post.len = pre.len + 1
                  /\ \A i \in 1..pre.len : arrs'[post.ref][i] = arrs[pre.ref][i]
                  /\ arrs'[post.ref][post.len] = Unwrap(nodes, last'.arg)
             ELSE /\ post = pre
                  /\ Tree(post, maps', arrs', MaxDepth) = Tree(pre, maps, arrs, MaxDepth)
                  /\ nodes[h].prev # 0 =>
                        Tree(nodes'[nodes[h].prev].data, maps', arrs', MaxDepth)
                          = Tree(nodes[nodes[h].prev].data, maps, arrs, MaxDepth)]_vars

(* C4: Clone() of any node, a string scalar included, wraps a Value        *)
(* structurally equal to the node's and shares no mapping or sequence with *)
(* it.                                                                     *)
C4_CloneEqualAndDisjoint ==
    (last.op = "Clone" /\ last.ok) =>
        /\ Tree(nodes[last.res].data, maps, arrs, MaxDepth)
             = Tree(nodes[last.recv].data, maps, arrs, MaxDepth)
        /\ Reach(nodes[last.res].data, maps, arrs, MaxDepth)
             \cap Reach(nodes[last.recv].data, maps, arrs, MaxDepth) = {}

(* C5: Index(i) on a node holding no sequence, or a sequence of length n   *)
(* with i < 0 or i >= n, returns a nil child linked to the receiver by i,  *)
(* raises no run-time fault and leaves the receiver's Value as it was.     *)
C5_IndexOutOfRangeIsNil ==
    [][(/\ last'.op = "Index"
        /\ \/ ~IsSlice(nodes[last'.recv].data)
           \/ last'.ikey < 0
           \/ last'.ikey >= nodes[last'.recv].data.len)
       => /\ fault' = "none"
          /\ last'.res # 0
          /\ IsNil(nodes'[last'.res].data)
          /\ nodes'[last'.res].prev = last'.recv
          /\ nodes'[last'.res].prevIndex = last'.ikey
          /\ nodes'[last'.recv].data = nodes[last'.recv].data
          /\ maps' = maps /\ arrs' = arrs]_vars

(* C6: ToInt of an unsigned value above the largest signed 64-bit integer  *)
(* is an error, never a negative integer; ToInt of any in-range value of a *)
(* signed or unsigned integer type is that integer, with no error.         *)
C6_ToIntNoWraparound ==
    tiRes.op = "ToInt" =>
        /\ (tiTyp \in UnsignedTypes /\ tiVal > MaxInt64) => tiRes.err
        /\ (tiTyp \in IntTypes /\ tiVal <= MaxInt64) => (~tiRes.err /\ tiRes.val = tiVal)

(* C7: Keys() returns the key set of the wrapped mapping for every node    *)
(* for which IsMap() is true (Dict included), nothing for a nil Value, and *)
(* aborts only on a Value that is neither nil nor a mapping.               *)
C7_KeysOfEveryMap ==
    last.op = "Keys" =>
        LET d == nodes[last.recv].data
        IN /\ IsMap(d) => (fault = "none" /\ last.keys = maps[d.ref].dom)
           /\ IsNil(d) => (fault = "none" /\ last.keys = {})
           /\ fault # "none" => (~IsNil(d) /\ ~IsMap(d))

(* the tree ShortNiceJson is to return: every string leaf longer than      *)
(* CutLen cut to its first CutLen units and the marker                     *)
RECURSIVE CutTree(_)
CutTree(tr) ==
    IF tr.kind = "str"
    THEN [tr EXCEPT !.str = IF Len(@) > CutLen THEN SubSeq(@, 1, CutLen) \o Marker ELSE @]
    ELSE IF tr.kind = "array"
    THEN [tr EXCEPT !.elems = [i \in 1..Len(@) |-> CutTree(@[i])]]
    ELSE IF tr.kind = "object"
    THEN [tr EXCEPT !.members = {<<m[1], CutTree(m[2])>> : m \in @}]
    ELSE tr

(* C8: ShortNiceJson() returns a tree of the receiver's shape in which     *)
(* every string leaf longer than 120 units, the receiver itself when it is *)
(* a string scalar, is its first 120 units and the marker, and every other *)
(* leaf is as it was; the receiver's Value is not modified.                *)
C8_ShortNiceJsonCutsEveryString ==
    [][(last'.op = "ShortNiceJson" /\ last'.ok)
       => /\ Tree(nodes'[last'.res].data, maps', arrs', MaxDepth)
               = CutTree(Tree(nodes[last'.recv].data, maps, arrs, MaxDepth))
          /\ Tree(nodes'[last'.recv].data, maps', arrs', MaxDepth)
               = Tree(nodes[last'.recv].data, maps, arrs, MaxDepth)]_vars

(* C9: after a successful Append or Insert on a non-root node C, the slot  *)
(* of the parent's container C was read from holds the node C itself, not  *)
(* C's raw sequence.                                                       *)
C9_SlotHoldsNode ==
    (/\ last.op \in {"Append", "Insert"} /\ last.ok
     /\ HasContainerParent(last.recv, nodes))
    => ParentSlot(last.recv, nodes, maps, arrs) = NodeV(last.recv)

(* C9, amended: after a successful Append or Insert on a non-root node C,  *)
(* the slot of the parent's container C was read from holds a raw Value,   *)
(* never a node: when the parent holds a map[string]interface{} or a       *)
(* []interface{}, Set has unwrapped C and the slot holds C's new sequence. *)
C9_SlotHoldsRawValue ==
    (/\ last.op \in {"Append", "Insert"} /\ last.ok
     /\ HasContainerParent(last.recv, nodes))
    => /\ ParentSlot(last.recv, nodes, maps, arrs).typ # "node"
       /\ HasPlainParent(last.recv, nodes)
            => /\ ParentSlot(last.recv, nodes, maps, arrs) = nodes[last.recv].data
               /\ IsSlice(ParentSlot(last.recv, nodes, maps, arrs))

C9_Witness ==
    /\ last.op = "Append" /\ last.ok
    /\ HasPlainParent(last.recv, nodes)
    /\ nodes[nodes[last.recv].prev].data.typ = "map"
    /\ ParentSlot(last.recv, nodes, maps, arrs) = nodes[last.recv].data
    /\ IsSlice(nodes[last.recv].data)

(* C10: no append is lost across handles.  When a handle C2 holds a        *)
(* sequence of length n and the document has, where C2 was read from, that *)
(* sequence with one element x appended through another handle, then after *)
(* C2.Append(y) the document holds there a sequence of length n+2 with     *)
(* both x and y.                                                           *)
C10_NoAppendLost ==
    [][(/\ last'.op = "Append" /\ last'.ok
        /\ HasPlainParent(last'.recv, nodes)
        /\ IsSlice(nodes[last'.recv].data)
        /\ LET pre == nodes[last'.recv].data
               was == ParentSlot(last'.recv, nodes, maps, arrs)
           IN /\ IsSlice(was) /\ was.len = pre.len + 1
              /\ \A i \in 1..pre.len : arrs[was.ref][i] = arrs[pre.ref][i])
       => LET h == last'.recv
              was == ParentSlot(h, nodes, maps, arrs)
              now == ParentSlot(h, nodes', maps', arrs')
          IN /\ GoJson_Len(now) = nodes[h].data.len + 2
             /\ InElems(arrs[was.ref][was.len], now, arrs')
             /\ InElems(Unwrap(nodes, last'.arg), now, arrs')]_vars

====
